---- MODULE Spec2Model ----
(***************************************************************************)
(* Autofocus control algorithm of the Raspberry Pi IPA (rpi.af),           *)
(* src/src/ipa/rpi/controller/rpi/af.cpp.                                  *)
(*                                                                         *)
(* Focus positions (dioptres, double in the source) are fixed-point        *)
(* integers: one unit is one stepFine of the tuning below.  Products and   *)
(* quotients of doubles are rounded toward zero onto that grid.  Counters  *)
(* (uint32_t in the source) stay far below 2^32 under the bounds.          *)
(***************************************************************************)
EXTENDS Integers, Sequences, FiniteSets, TLC

(***************************************************************************)
(* Bounds of the model.                                                    *)
(***************************************************************************)
\* control calls (everything but prepare and process) explored in one run;
\* frames are not limited
MaxControls == 3
\* setSpeed() may extend stepCount without limit; calls that would push it
\* past MaxStepCount are not explored
MaxStepCount == 2
\* dropCount is not reset when a programmed scan starts and can then grow
\* without limit in Pdaf; frames that would push it past MaxDropCount are
\* not explored
MaxDropCount == 2

(***************************************************************************)
(* Enumerations (af_algorithm.h / af.h).                                   *)
(***************************************************************************)
Modes == {"Manual", "Auto", "Continuous"}
Ranges == {"Normal", "Macro", "Full"}
Speeds == {"Normal", "Fast"}
\* a value >= AfRangeMax / AfSpeedMax, which setRange/setSpeed ignore
OutOfEnum == "Max"
\* what applications pass to setRange / setSpeed
RangeRequests == {"Normal", "Macro", OutOfEnum}
SpeedRequests == Speeds \cup {OutOfEnum}
Pauses == {"Immediate", "Deferred", "Resume"}
ScanStates == {"Idle", "Trigger", "Pdaf", "Coarse", "Fine", "Settle"}
AfStates == {"Idle", "Scanning", "Focused", "Failed"}

\* numeric order of enum class ScanState
ScanOrd ==
    [s \in ScanStates |->
        CASE s = "Idle" -> 0
          [] s = "Trigger" -> 1
          [] s = "Pdaf" -> 2
          [] s = "Coarse" -> 3
          [] s = "Fine" -> 4
          [] s = "Settle" -> 5]

(***************************************************************************)
(* Tuning, as Af::read() loads it from a tuning file.  The three ranges    *)
(* differ, Fast has no triggered PDAF phase (pdaf_frames 0) and a larger   *)
(* slew rate, and the lens map covers more than any range.                 *)
(***************************************************************************)
\* which tuning file was read; cfg_ is not written after read()
VARIABLE tuning

\* parity of the number of frames the pipeline has delivered; it is counted
\* only by the specification in which frames keep arriving (SpecFair)
VARIABLE frame

cfgDefault ==
    [ranges |->
        [Normal |-> [focusMin |-> 0, focusMax |-> 2, focusDefault |-> 1],
         Macro  |-> [focusMin |-> 1, focusMax |-> 3, focusDefault |-> 2],
         Full   |-> [focusMin |-> 0, focusMax |-> 3, focusDefault |-> 1]],
     speeds |->
        [Normal |-> [stepCoarse |-> 2, stepFine |-> 1,
                     ratioNum |-> 3, ratioDen |-> 4,
                     pdafGain |-> -1, pdafSquelch |-> 2, maxSlew |-> 1,
                     pdafFrames |-> 2, dropoutFrames |-> 2, stepFrames |-> 2],
         Fast   |-> [stepCoarse |-> 2, stepFine |-> 1,
                     ratioNum |-> 3, ratioDen |-> 4,
                     pdafGain |-> -1, pdafSquelch |-> 2, maxSlew |-> 2,
                     pdafFrames |-> 0, dropoutFrames |-> 0, stepFrames |-> 2]],
     confEpsilon |-> 4,
     skipFrames |-> 2,
     map |-> [x0 |-> 0, y0 |-> 445, x1 |-> 3, y1 |-> 925]]

\* a tuning whose ranges are long enough for a fine scan of five steps, with
\* unit coarse steps at normal speed and a lens that follows at once
cfgWide ==
    [ranges |->
        [Normal |-> [focusMin |-> 0, focusMax |-> 5, focusDefault |-> 1],
         Macro  |-> [focusMin |-> 2, focusMax |-> 5, focusDefault |-> 2],
         Full   |-> [focusMin |-> 0, focusMax |-> 5, focusDefault |-> 1]],
     speeds |->
        [Normal |-> [stepCoarse |-> 1, stepFine |-> 1,
                     ratioNum |-> 3, ratioDen |-> 4,
                     pdafGain |-> -1, pdafSquelch |-> 2, maxSlew |-> 5,
                     pdafFrames |-> 1, dropoutFrames |-> 1, stepFrames |-> 1],
         Fast   |-> [stepCoarse |-> 2, stepFine |-> 1,
                     ratioNum |-> 3, ratioDen |-> 4,
                     pdafGain |-> -1, pdafSquelch |-> 2, maxSlew |-> 5,
                     pdafFrames |-> 0, dropoutFrames |-> 0, stepFrames |-> 1]],
     confEpsilon |-> 4,
     skipFrames |-> 1,
     map |-> [x0 |-> 0, y0 |-> 445, x1 |-> 5, y1 |-> 1245]]

cfg == IF tuning = "wide" THEN cfgWide ELSE cfgDefault

\* initial value of scanMinContrast_ (1.0e9)
ScanMinInit == 1000000000

(***************************************************************************)
(* Inputs of one frame.                                                    *)
(***************************************************************************)
\* (phase, conf) as getPhase() fuses them from pdaf.regions; <<0, 0>> is
\* what it yields when the fused confidence is too low
PdafSamples == {<<0, 0>>, <<-6, 4>>, <<6, 8>>}
\* mean of the AWB zone greens kept by generate_stats (each zone >= 32, and
\* at least one zone kept)
Means == {500, 2000}
\* pdaf: the metadata carries pdaf.regions; locked: agc.prepare_status.locked
\* (0 when the entry is absent); mean: from the statistics process() cached
FrameInputs ==
    {i \in [pdaf : BOOLEAN, sample : PdafSamples,
            locked : BOOLEAN, mean : Means] :
        ~i.pdaf => i.sample = <<0, 0>>}
\* contrast figures of merit getContrast() reduces the focus statistics to
Contrasts == {0, 1}
\* lens positions an application asks for; the last lies outside the map
\* domain
Requests == {0, 3, 4}

VARIABLES
    range, speed, mode, pauseFlag,
    scanState, initted, ftarget, fsmooth,
    prevContrast, skipCount, stepCount, dropCount,
    scanMaxContrast, scanMinContrast, scanMaxIndex, scanData,
    reportState, isPdafEnabled,
    last_mean, trigger_when_stable, last_agc_status,
    calls,         \* control calls made so far
    sinceSwitch,   \* history: doAF calls since the last switchMode
    deferred,      \* history: pause(Deferred) hit a Coarse scan, frames only since
    \* the metering windows and the weights computed from them.  Spec takes
    \* the fused (phase, conf) and the contrast as frame inputs and reads none
    \* of these four; SpecWeights is the specification of their computation
    statsRegion, windows, useWindows,
    wgts           \* the RegionWeights that computeWeights fills

afVars ==
    <<range, speed, mode, pauseFlag, scanState, initted, ftarget, fsmooth,
      prevContrast, skipCount, stepCount, dropCount,
      scanMaxContrast, scanMinContrast, scanMaxIndex, scanData,
      reportState, isPdafEnabled,
      last_mean, trigger_when_stable, last_agc_status>>

weightVars == <<statsRegion, windows, useWindows, wgts>>

vars == <<tuning, frame, afVars, weightVars, calls, sinceSwitch, deferred>>

\* the fields of the Af object as one record
St ==
    [range |-> range, speed |-> speed, mode |-> mode, pauseFlag |-> pauseFlag,
     scanState |-> scanState, initted |-> initted,
     ftarget |-> ftarget, fsmooth |-> fsmooth,
     prevContrast |-> prevContrast, skipCount |-> skipCount,
     stepCount |-> stepCount, dropCount |-> dropCount,
     scanMaxContrast |-> scanMaxContrast, scanMinContrast |-> scanMinContrast,
     scanMaxIndex |-> scanMaxIndex, scanData |-> scanData,
     reportState |-> reportState, isPdafEnabled |-> isPdafEnabled,
     last_mean |-> last_mean, trigger_when_stable |-> trigger_when_stable,
     last_agc_status |-> last_agc_status]

\* the Af object after a call: every field takes its value from record s
Assigned(s) ==
    /\ range' = s.range
    /\ speed' = s.speed
    /\ mode' = s.mode
    /\ pauseFlag' = s.pauseFlag
    /\ scanState' = s.scanState
    /\ initted' = s.initted
    /\ ftarget' = s.ftarget
    /\ fsmooth' = s.fsmooth
    /\ prevContrast' = s.prevContrast
    /\ skipCount' = s.skipCount
    /\ stepCount' = s.stepCount
    /\ dropCount' = s.dropCount
    /\ scanMaxContrast' = s.scanMaxContrast
    /\ scanMinContrast' = s.scanMinContrast
    /\ scanMaxIndex' = s.scanMaxIndex
    /\ scanData' = s.scanData
    /\ reportState' = s.reportState
    /\ isPdafEnabled' = s.isPdafEnabled
    /\ last_mean' = s.last_mean
    /\ trigger_when_stable' = s.trigger_when_stable
    /\ last_agc_status' = s.last_agc_status

Becomes(s) == Assigned(s) /\ UNCHANGED <<tuning, frame, weightVars>>

(***************************************************************************)
(* Arithmetic helpers.                                                     *)
(***************************************************************************)
Abs(x) == IF x < 0 THEN -x ELSE x

\* quotient rounded toward zero, b > 0
TruncDiv(a, b) == IF a >= 0 THEN a \div b ELSE -((-a) \div b)

\* std::clamp(v, lo, hi), lo <= hi
Clamp(v, lo, hi) == IF v < lo THEN lo ELSE IF hi < v THEN hi ELSE v

Min(a, b) == IF b < a THEN b ELSE a

rangeOf(s) == cfg.ranges[s.range]
speedOf(s) == cfg.speeds[s.speed]

(***************************************************************************)
(* Lens map (Pwl): dioptres -> hardware code.                              *)
(***************************************************************************)
\* cfg_.map.domain().clip(x)
mapClip(x) == Clamp(x, cfg.map.x0, cfg.map.x1)

\* cfg_.map.eval(x): linear interpolation between the anchors, clipped to
\* the end points and rounded to the nearest integer code
mapEval(x) ==
    LET m == cfg.map
        dx == m.x1 - m.x0
        num == (m.y1 - m.y0) * (mapClip(x) - m.x0)
    IN  m.y0 + (2 * num + dx) \div (2 * dx)

(***************************************************************************)
(* Af::updateLensPosition                                                  *)
(***************************************************************************)
\* updateLensPosition without the clamp of ftarget to the active range
updateLensPositionUnclamped(s) ==
    IF s.initted
    THEN [s EXCEPT !.fsmooth = Clamp(s.ftarget,
                                     s.fsmooth - speedOf(s).maxSlew,
                                     s.fsmooth + speedOf(s).maxSlew)]
    ELSE [s EXCEPT !.fsmooth = s.ftarget,
                   !.initted = TRUE,
                   !.skipCount = cfg.skipFrames]

\* updateLensPosition with a slew rate of 0: the lens stays where it is
updateLensPositionNoSlew(s) ==
    LET s1 == IF ScanOrd[s.scanState] >= ScanOrd["Pdaf"]
              THEN [s EXCEPT !.ftarget = Clamp(s.ftarget, rangeOf(s).focusMin,
                                               rangeOf(s).focusMax)]
              ELSE s
    IN  IF s1.initted
        THEN s1
        ELSE [s1 EXCEPT !.fsmooth = s1.ftarget,
                        !.initted = TRUE,
                        !.skipCount = cfg.skipFrames]

\* updateLensPosition with a lens that always moves by the full slew rate
updateLensPositionOvershoot(s) ==
    LET s1 == IF ScanOrd[s.scanState] >= ScanOrd["Pdaf"]
              THEN [s EXCEPT !.ftarget = Clamp(s.ftarget, rangeOf(s).focusMin,
                                               rangeOf(s).focusMax)]
              ELSE s
    IN  IF s1.initted
        THEN [s1 EXCEPT !.fsmooth =
                            IF s1.ftarget > s1.fsmooth
                            THEN s1.fsmooth + speedOf(s1).maxSlew
                            ELSE IF s1.ftarget < s1.fsmooth
                            THEN s1.fsmooth - speedOf(s1).maxSlew
                            ELSE s1.fsmooth]
        ELSE [s1 EXCEPT !.fsmooth = s1.ftarget,
                        !.initted = TRUE,
                        !.skipCount = cfg.skipFrames]

updateLensPosition(s) ==
    LET s1 == IF ScanOrd[s.scanState] >= ScanOrd["Pdaf"]
              THEN [s EXCEPT !.ftarget = Clamp(s.ftarget, rangeOf(s).focusMin,
                                               rangeOf(s).focusMax)]
              ELSE s
    IN  IF s1.initted
        THEN [s1 EXCEPT !.fsmooth = Clamp(s1.ftarget,
                                          s1.fsmooth - speedOf(s1).maxSlew,
                                          s1.fsmooth + speedOf(s1).maxSlew)]
        ELSE [s1 EXCEPT !.fsmooth = s1.ftarget,
                        !.initted = TRUE,
                        !.skipCount = cfg.skipFrames]

(***************************************************************************)
(* Af::startProgrammedScan  (stable_frame_count is written but never read  *)
(* and is left out)                                                        *)
(***************************************************************************)
startProgrammedScan(s) ==
    LET s1 == updateLensPosition([s EXCEPT !.ftarget = rangeOf(s).focusMin])
    IN  [s1 EXCEPT !.scanState = "Coarse",
                   !.scanMaxContrast = 0,
                   !.scanMinContrast = ScanMinInit,
                   !.scanMaxIndex = 0,
                   !.scanData = <<>>,
                   !.stepCount = speedOf(s1).stepFrames,
                   !.reportState = "Scanning",
                   !.last_mean = 0,
                   !.trigger_when_stable = FALSE,
                   !.last_agc_status = FALSE]

(***************************************************************************)
(* Af::startAF                                                             *)
(***************************************************************************)
\* a startAF that goes by the PDAF data seen so far instead of the tuning
startAFByFlag(s) ==
    IF s.isPdafEnabled
    THEN LET s1 == IF ~s.initted
                   THEN updateLensPosition(
                            [s EXCEPT !.ftarget = rangeOf(s).focusDefault])
                   ELSE s
         IN  [s1 EXCEPT !.stepCount = IF s1.mode = "Continuous" THEN 0
                                      ELSE speedOf(s1).pdafFrames,
                        !.scanState = "Pdaf",
                        !.scanData = <<>>,
                        !.dropCount = 0,
                        !.reportState = "Scanning"]
    ELSE startProgrammedScan(s)

startAF(s) ==
    IF speedOf(s).dropoutFrames > 0 /\
       (s.mode = "Continuous" \/ speedOf(s).pdafFrames > 0)
    THEN LET s1 == IF ~s.initted
                   THEN updateLensPosition(
                            [s EXCEPT !.ftarget = rangeOf(s).focusDefault])
                   ELSE s
         IN  [s1 EXCEPT !.stepCount = IF s1.mode = "Continuous" THEN 0
                                      ELSE speedOf(s1).pdafFrames,
                        !.scanState = "Pdaf",
                        !.scanData = <<>>,
                        !.dropCount = 0,
                        !.reportState = "Scanning"]
    ELSE startProgrammedScan(s)

(***************************************************************************)
(* Af::goIdle                                                              *)
(***************************************************************************)
goIdle(s) ==
    [s EXCEPT !.scanState = "Idle", !.reportState = "Idle", !.scanData = <<>>]

(***************************************************************************)
(* Af::doPDAF                                                              *)
(***************************************************************************)
doPDAF(s, phase, conf) ==
    LET sp == speedOf(s)
        gained == phase * sp.pdafGain
        \* Continuous: scale by conf / (conf + confEpsilon), then squelch
        scaled == TruncDiv(gained * conf, conf + cfg.confEpsilon)
        squelched == IF Abs(scaled) < sp.pdafSquelch
                     THEN TruncDiv(scaled * scaled * scaled,
                                   sp.pdafSquelch * sp.pdafSquelch)
                     ELSE scaled
        \* triggered: stepCount_ / stepFrames is a quotient of unsigned integers
        ramped == IF s.stepCount >= sp.stepFrames
                  THEN gained
                  ELSE gained * (s.stepCount \div sp.stepFrames)
        stepCount1 == IF s.mode # "Continuous" /\ s.stepCount >= sp.stepFrames /\
                         Abs(gained) < sp.pdafSquelch
                      THEN sp.stepFrames
                      ELSE s.stepCount
        ph == IF s.mode = "Continuous" THEN squelched ELSE ramped
        clipped == Clamp(ph, -sp.maxSlew, sp.maxSlew)
        report == IF ph < -sp.maxSlew
                  THEN IF s.ftarget <= rangeOf(s).focusMin
                       THEN "Failed" ELSE "Scanning"
                  ELSE IF ph > sp.maxSlew
                  THEN IF s.ftarget >= rangeOf(s).focusMax
                       THEN "Failed" ELSE "Scanning"
                  ELSE "Focused"
    IN  [s EXCEPT !.stepCount = stepCount1,
                  !.reportState = report,
                  !.ftarget = s.fsmooth + clipped]

(***************************************************************************)
(* Af::earlyTerminationByPhase: whether it accepts, and the new ftarget    *)
(***************************************************************************)
etbpAccepts(s, phase) ==
    /\ Len(s.scanData) > 0
    /\ s.scanData[Len(s.scanData)].conf >= cfg.confEpsilon
    /\ LET old == s.scanData[Len(s.scanData)]
           d == phase - old.phase
       IN  /\ (s.ftarget - old.focus) * d > 0
           \* -3.0 <= phase / d <= 3.5
           /\ IF d > 0 THEN -3 * d <= phase /\ 2 * phase <= 7 * d
                       ELSE phase <= -3 * d /\ 7 * d <= 2 * phase

etbpTarget(s, phase) ==
    LET old == s.scanData[Len(s.scanData)]
        d == phase - old.phase
        num == phase * (old.focus - s.ftarget)
    IN  s.ftarget + (IF d > 0 THEN TruncDiv(num, d) ELSE TruncDiv(-num, -d))

(***************************************************************************)
(* Af::findPeak, i counted from 0 as in the source                         *)
(***************************************************************************)
peakShift(lo, hi, dist) ==
    \* 0.3125 * (1 - lo/hi) * (1.6 - lo/hi) * dist, with 0 <= lo < hi
    TruncDiv((hi - lo) * (8 * hi - 5 * lo) * dist, 16 * hi * hi)

findPeak(data, i) ==
    LET f == data[i + 1].focus
    IN  IF i > 0 /\ i + 1 < Len(data)
        THEN LET dropLo == data[i + 1].contrast - data[i].contrast
                 dropHi == data[i + 1].contrast - data[i + 2].contrast
             IN  IF 0 <= dropLo /\ dropLo < dropHi
                 THEN f + peakShift(dropLo, dropHi, data[i].focus - f)
                 ELSE IF 0 <= dropHi /\ dropHi < dropLo
                 THEN f + peakShift(dropHi, dropLo, data[i + 2].focus - f)
                 ELSE f
        ELSE f

(***************************************************************************)
(* Af::doScan                                                              *)
(***************************************************************************)
\* an index that moves only when the contrast exceeds the recorded maximum
scanMaxIndexKept(s, contrast) ==
    IF contrast > s.scanMaxContrast THEN Len(s.scanData)
    ELSE s.scanMaxIndex

\* scanMaxIndex_ once the frame's contrast was compared (lines 460-463)
scanMaxIndexAfter(s, contrast) ==
    IF s.scanData = <<>> \/ contrast > s.scanMaxContrast
    THEN Len(s.scanData)
    ELSE s.scanMaxIndex

\* a scan that carries the coarse records over into the Fine phase
doScanKeepsData(s, contrast, phase, conf) ==
    LET sp == speedOf(s)
        newMax == s.scanData = <<>> \/ contrast > s.scanMaxContrast
        maxC == IF newMax THEN contrast ELSE s.scanMaxContrast
        maxI == scanMaxIndexAfter(s, contrast)
        minC == IF contrast < s.scanMinContrast THEN contrast
                ELSE s.scanMinContrast
        data == Append(s.scanData,
                       [focus |-> s.ftarget, contrast |-> contrast,
                        phase |-> phase, conf |-> conf])
        collapsed == contrast * sp.ratioDen < sp.ratioNum * maxC
        s1 == [s EXCEPT !.scanMaxContrast = maxC, !.scanMaxIndex = maxI,
                        !.scanMinContrast = minC, !.scanData = data]
        s2 == IF s.scanState = "Coarse"
              THEN IF s.ftarget >= rangeOf(s).focusMax \/ collapsed
                   THEN [s1 EXCEPT !.ftarget = Min(s.ftarget,
                                        findPeak(data, maxI) + 2 * sp.stepFine),
                                   !.scanState = "Fine"]
                   ELSE [s1 EXCEPT !.ftarget = s.ftarget + sp.stepCoarse]
              ELSE IF s.ftarget <= rangeOf(s).focusMin \/ Len(data) >= 5 \/
                      collapsed
                   THEN [s1 EXCEPT !.ftarget = findPeak(data, maxI),
                                   !.scanState = "Settle"]
                   ELSE [s1 EXCEPT !.ftarget = s.ftarget - sp.stepFine]
    IN  [s2 EXCEPT !.stepCount = IF s2.ftarget = s2.fsmooth THEN 0
                                 ELSE sp.stepFrames]

doScan(s, contrast, phase, conf) ==
    LET sp == speedOf(s)
        newMax == s.scanData = <<>> \/ contrast > s.scanMaxContrast
        maxC == IF newMax THEN contrast ELSE s.scanMaxContrast
        maxI == scanMaxIndexAfter(s, contrast)
        minC == IF contrast < s.scanMinContrast THEN contrast
                ELSE s.scanMinContrast
        data == Append(s.scanData,
                       [focus |-> s.ftarget, contrast |-> contrast,
                        phase |-> phase, conf |-> conf])
        collapsed == contrast * sp.ratioDen < sp.ratioNum * maxC
        s1 == [s EXCEPT !.scanMaxContrast = maxC, !.scanMaxIndex = maxI,
                        !.scanMinContrast = minC, !.scanData = data]
        s2 == IF s.scanState = "Coarse"
              THEN IF s.ftarget >= rangeOf(s).focusMax \/ collapsed
                   THEN [s1 EXCEPT !.ftarget = Min(s.ftarget,
                                        findPeak(data, maxI) + 2 * sp.stepFine),
                                   !.scanState = "Fine",
                                   !.scanData = <<>>]
                   ELSE [s1 EXCEPT !.ftarget = s.ftarget + sp.stepCoarse]
              ELSE IF s.ftarget <= rangeOf(s).focusMin \/ Len(data) >= 5 \/
                      collapsed
                   THEN [s1 EXCEPT !.ftarget = findPeak(data, maxI),
                                   !.scanState = "Settle"]
                   ELSE [s1 EXCEPT !.ftarget = s.ftarget - sp.stepFine]
    IN  [s2 EXCEPT !.stepCount = IF s2.ftarget = s2.fsmooth THEN 0
                                 ELSE sp.stepFrames]

(***************************************************************************)
(* Af::doAF, scene monitor branch (lines 523-550)                          *)
(***************************************************************************)
sceneMonitor(s, locked, mean) ==
    LET armed == locked /\ s.last_mean # 0
        mean_diff == Abs(mean - s.last_mean)
        tws == IF armed /\ mean_diff > 1000 THEN TRUE
               ELSE s.trigger_when_stable
        s1 == [s EXCEPT !.trigger_when_stable = tws]
        start == armed /\ ( (tws /\ mean_diff < 400)
                            \/ (~s.last_agc_status /\ locked) )
        s2 == IF start THEN startProgrammedScan(s1) ELSE s1
    IN  [s2 EXCEPT !.last_agc_status = locked, !.last_mean = mean]

(***************************************************************************)
(* Af::doAF, Pdaf branch (lines 551-567)                                   *)
(***************************************************************************)
pdafConfident(s, conf) ==
    \* conf > (dropCount_ ? 1.0 : 0.25) * confEpsilon
    IF s.dropCount # 0 THEN conf > cfg.confEpsilon
    ELSE 4 * conf > cfg.confEpsilon

\* a Pdaf branch that keeps a Failed report once it is there
pdafStepKeepsFailed(s, phase, conf) ==
    IF pdafConfident(s, conf)
    THEN LET s0 == doPDAF(s, phase, conf)
             s1 == IF s.reportState = "Failed"
                   THEN [s0 EXCEPT !.reportState = "Failed"]
                   ELSE s0
             s2 == IF s1.stepCount > 0
                   THEN [s1 EXCEPT !.stepCount = s1.stepCount - 1]
                   ELSE IF s1.mode # "Continuous"
                   THEN [s1 EXCEPT !.scanState = "Idle"]
                   ELSE s1
         IN  [s2 EXCEPT !.dropCount = 0]
    ELSE LET s1 == [s EXCEPT !.dropCount = s.dropCount + 1]
         IN  IF s1.dropCount = speedOf(s1).dropoutFrames
             THEN startProgrammedScan(s1)
             ELSE s1

pdafStep(s, phase, conf) ==
    IF pdafConfident(s, conf)
    THEN LET s1 == doPDAF(s, phase, conf)
             s2 == IF s1.stepCount > 0
                   THEN [s1 EXCEPT !.stepCount = s1.stepCount - 1]
                   ELSE IF s1.mode # "Continuous"
                   THEN [s1 EXCEPT !.scanState = "Idle"]
                   ELSE s1
         IN  [s2 EXCEPT !.dropCount = 0]
    ELSE LET s1 == [s EXCEPT !.dropCount = s.dropCount + 1]
         IN  IF s1.dropCount = speedOf(s1).dropoutFrames
             THEN startProgrammedScan(s1)
             ELSE s1

(***************************************************************************)
(* Af::doAF, scanning sequence (lines 568-597)                             *)
(***************************************************************************)
\* a Settle that hands over to Pdaf although the scan is paused
settleDoneWhilePaused(s) ==
    LET sp == speedOf(s)
        lim == sp.ratioNum * s.scanMaxContrast
        focused == s.prevContrast * sp.ratioDen >= lim /\
                   s.scanMinContrast * sp.ratioDen <= lim
        next == IF s.mode = "Continuous" /\
                   sp.dropoutFrames > 0 /\ s.isPdafEnabled
                THEN "Pdaf" ELSE "Idle"
    IN  [s EXCEPT !.reportState = IF focused THEN "Focused" ELSE "Failed",
                  !.scanState = next,
                  !.scanData = <<>>,
                  !.last_mean = 0]

settleDone(s) ==
    LET sp == speedOf(s)
        lim == sp.ratioNum * s.scanMaxContrast
        focused == s.prevContrast * sp.ratioDen >= lim /\
                   s.scanMinContrast * sp.ratioDen <= lim
        next == IF s.mode = "Continuous" /\ ~s.pauseFlag /\
                   sp.dropoutFrames > 0 /\ s.isPdafEnabled
                THEN "Pdaf" ELSE "Idle"
    IN  [s EXCEPT !.reportState = IF focused THEN "Focused" ELSE "Failed",
                  !.scanState = next,
                  !.scanData = <<>>,
                  !.last_mean = 0]

scanStep(s, contrast, phase, conf) ==
    IF s.stepCount > 0
    THEN [s EXCEPT !.stepCount = s.stepCount - 1]
    ELSE IF s.scanState = "Settle"
    THEN settleDone(s)
    ELSE IF conf >= cfg.confEpsilon /\ etbpAccepts(s, phase)
    THEN [s EXCEPT !.ftarget = etbpTarget(s, phase),
                   !.scanState = "Settle",
                   !.stepCount = IF s.mode = "Continuous" THEN 0
                                 ELSE speedOf(s).stepFrames]
    ELSE doScan(s, contrast, phase, conf)

(***************************************************************************)
(* Af::doAF                                                                *)
(***************************************************************************)
doAF(s, contrast, phase, conf, locked, mean) ==
    IF s.skipCount > 0
    THEN [s EXCEPT !.skipCount = s.skipCount - 1]
    ELSE IF s.mode = "Continuous" /\ ~s.isPdafEnabled /\ s.scanState = "Idle"
    THEN sceneMonitor(s, locked, mean)
    ELSE IF s.scanState = "Pdaf"
    THEN pdafStep(s, phase, conf)
    ELSE IF ScanOrd[s.scanState] >= ScanOrd["Coarse"] /\ s.fsmooth = s.ftarget
    THEN scanStep(s, contrast, phase, conf)
    ELSE s

(***************************************************************************)
(* What a call hands back to its caller, as a function of the object it    *)
(* leaves behind.                                                          *)
(***************************************************************************)
\* std::nullopt
NoValue == -1

\* a status that always carries reportState
statusOfReport(s) ==
    [pauseState |-> IF s.pauseFlag
                    THEN IF s.scanState = "Idle" THEN "Paused" ELSE "Pausing"
                    ELSE "Running",
     state |-> s.reportState,
     lensSetting |-> IF s.initted THEN mapEval(s.fsmooth) ELSE NoValue]

\* Af::prepare, lines 704-718
statusOf(s) ==
    [pauseState |-> IF s.pauseFlag
                    THEN IF s.scanState = "Idle" THEN "Paused" ELSE "Pausing"
                    ELSE "Running",
     state |-> IF s.mode = "Auto" /\ s.scanState # "Idle" THEN "Scanning"
               ELSE s.reportState,
     lensSetting |-> IF s.initted THEN mapEval(s.fsmooth) ELSE NoValue]

(***************************************************************************)
(* Af::prepare                                                             *)
(***************************************************************************)
\* the object when prepare() reaches "if (initted_)"
afterTrigger(s) == IF s.scanState = "Trigger" THEN startAF(s) ELSE s

\* the object when prepare() calls doAF
atDoAF(s, in) == [afterTrigger(s) EXCEPT !.isPdafEnabled = @ \/ in.pdaf]

\* a prepare that hands doAF another contrast than the stored one
afterDoAFOtherContrast(s, in) ==
    LET s1 == atDoAF(s, in)
    IN  doAF(s1, 1 - s1.prevContrast, in.sample[1], in.sample[2],
             in.locked, in.mean)

afterDoAF(s, in) ==
    LET s1 == atDoAF(s, in)
    IN  doAF(s1, s1.prevContrast, in.sample[1], in.sample[2],
             in.locked, in.mean)

prepared(s, in) ==
    IF afterTrigger(s).initted
    THEN updateLensPosition(afterDoAF(s, in))
    ELSE afterTrigger(s)

\* doAF reads phase and conf only in its Pdaf and scanning branches, and the
\* AGC status and the statistics only in its scene monitor branch
readsPdaf(s) ==
    LET s1 == afterTrigger(s)
    IN  s1.initted /\ s1.skipCount = 0 /\
        ScanOrd[s1.scanState] >= ScanOrd["Pdaf"]

readsScene(s, in) ==
    LET s1 == atDoAF(s, in)
    IN  s1.initted /\ s1.skipCount = 0 /\ s1.mode = "Continuous" /\
        ~s1.isPdafEnabled /\ s1.scanState = "Idle"

\* the frames that differ in something prepare() reads from them in object
\* s; what it does not read takes one value
FramesAt(s) ==
    {in \in FrameInputs :
        /\ ~readsPdaf(s) => in.sample = <<0, 0>>
        /\ ~readsScene(s, in) => ~in.locked /\ in.mean = 500}

prepare(in) ==
    LET s == prepared(St, in)
    IN  /\ s.dropCount <= MaxDropCount
        /\ Becomes(s)
        /\ sinceSwitch' = IF afterTrigger(St).initted /\
                             sinceSwitch < cfg.skipFrames
                          THEN sinceSwitch + 1 ELSE sinceSwitch
        /\ UNCHANGED <<calls, deferred>>

(***************************************************************************)
(* Af::process: getContrast() reduces the frame's focus statistics to c    *)
(***************************************************************************)
process(c) ==
    /\ Becomes([St EXCEPT !.prevContrast = c])
    /\ UNCHANGED <<calls, sinceSwitch, deferred>>

\* one more control call, within the budget of the run
control == calls < MaxControls /\ calls' = calls + 1

(***************************************************************************)
(* Af::switchMode                                                          *)
(***************************************************************************)
\* switchMode that restarts the scan from every scan state
switchedRestarts(s) ==
    [startProgrammedScan(s) EXCEPT !.skipCount = cfg.skipFrames]

\* switchMode without the reload of skipCount
switchedNoSkip(s) ==
    IF ScanOrd[s.scanState] >= ScanOrd["Coarse"] /\
       ScanOrd[s.scanState] < ScanOrd["Settle"]
    THEN startProgrammedScan(s)
    ELSE s

switched(s) ==
    LET s1 == IF ScanOrd[s.scanState] >= ScanOrd["Coarse"] /\
                 ScanOrd[s.scanState] < ScanOrd["Settle"]
              THEN startProgrammedScan(s)
              ELSE s
    IN  [s1 EXCEPT !.skipCount = cfg.skipFrames]

switchMode ==
    /\ control
    /\ Becomes(switched(St))
    /\ sinceSwitch' = 0
    /\ deferred' = FALSE

(***************************************************************************)
(* Controls                                                                *)
(***************************************************************************)
\* Af::setRange
rangeSet(s, r) == IF r \in Ranges THEN [s EXCEPT !.range = r] ELSE s

setRange(r) ==
    /\ control
    /\ Becomes(rangeSet(St, r))
    /\ deferred' = FALSE
    /\ UNCHANGED sinceSwitch

\* Af::setSpeed
speedSet(s, sp) ==
    IF sp \in Speeds
    THEN LET more == s.scanState = "Pdaf" /\
                     cfg.speeds[sp].pdafFrames > speedOf(s).pdafFrames
         IN  [s EXCEPT !.stepCount = IF more
                                      THEN @ + cfg.speeds[sp].pdafFrames
                                             - speedOf(s).pdafFrames
                                      ELSE @,
                       !.speed = sp]
    ELSE s

setSpeed(sp) ==
    /\ control
    /\ speedSet(St, sp).stepCount <= MaxStepCount
    /\ Becomes(speedSet(St, sp))
    /\ deferred' = FALSE
    /\ UNCHANGED sinceSwitch

\* Af::setLensPosition; the two values it returns are lensPositionChanged
\* of the object before the call and hwposOf of the object after it
\* setLensPosition that puts the lens on the request at once
lensPositionSetDirect(s, dioptres) ==
    IF s.mode = "Manual"
    THEN [s EXCEPT !.ftarget = mapClip(dioptres),
                   !.fsmooth = mapClip(dioptres),
                   !.initted = TRUE,
                   !.skipCount = IF s.initted THEN @ ELSE cfg.skipFrames]
    ELSE s

lensPositionSet(s, dioptres) ==
    IF s.mode = "Manual"
    THEN updateLensPosition([s EXCEPT !.ftarget = mapClip(dioptres)])
    ELSE s

lensPositionChanged(s, dioptres) ==
    s.mode = "Manual" /\ ~(s.initted /\ s.fsmooth = mapClip(dioptres))

hwposOf(s) == mapEval(s.fsmooth)

setLensPosition(dioptres) ==
    LET s == lensPositionSet(St, dioptres)
    IN  /\ control
        /\ Becomes(s)
        /\ deferred' = FALSE
        /\ UNCHANGED sinceSwitch

\* Af::cancelScan
\* cancelScan that does not look at the mode
scanCancelledAnyMode(s) == goIdle(s)

scanCancelled(s) == IF s.mode = "Auto" THEN goIdle(s) ELSE s

cancelScan ==
    /\ control
    /\ Becomes(scanCancelled(St))
    /\ deferred' = FALSE
    /\ UNCHANGED sinceSwitch

\* Af::triggerScan
\* triggerScan that does not look at the scan state
scanTriggeredAnyState(s) ==
    IF s.mode = "Auto"
    THEN [s EXCEPT !.scanState = "Trigger"]
    ELSE s

scanTriggered(s) ==
    IF s.mode = "Auto" /\ s.scanState = "Idle"
    THEN [s EXCEPT !.scanState = "Trigger"]
    ELSE s

triggerScan ==
    /\ control
    /\ Becomes(scanTriggered(St))
    /\ deferred' = FALSE
    /\ UNCHANGED sinceSwitch

\* setMode that leaves the pause flag alone
modeSetKeepsPause(s, m) ==
    IF s.mode # m
    THEN LET s1 == [s EXCEPT !.mode = m]
         IN  IF m = "Continuous"
             THEN [s1 EXCEPT !.scanState = "Trigger"]
             ELSE IF m # "Auto" \/ ScanOrd[s1.scanState] < ScanOrd["Coarse"]
             THEN goIdle(s1)
             ELSE s1
    ELSE s

\* setMode that goes idle whenever the new mode is not Continuous
modeSetGoesIdle(s, m) ==
    IF s.mode # m
    THEN LET s1 == [s EXCEPT !.mode = m, !.pauseFlag = FALSE]
         IN  IF m = "Continuous"
             THEN [s1 EXCEPT !.scanState = "Trigger"]
             ELSE goIdle(s1)
    ELSE s

\* Af::setMode
modeSet(s, m) ==
    IF s.mode # m
    THEN LET s1 == [s EXCEPT !.mode = m, !.pauseFlag = FALSE]
         IN  IF m = "Continuous"
             THEN [s1 EXCEPT !.scanState = "Trigger"]
             ELSE IF m # "Auto" \/ ScanOrd[s1.scanState] < ScanOrd["Coarse"]
             THEN goIdle(s1)
             ELSE s1
    ELSE s

setMode(m) ==
    /\ control
    /\ Becomes(modeSet(St, m))
    /\ deferred' = FALSE
    /\ UNCHANGED sinceSwitch

\* Af::pause
\* pause that treats Deferred as Immediate
pausedAtOnce(s, p) ==
    IF s.mode = "Continuous"
    THEN IF p = "Resume" /\ s.pauseFlag
         THEN LET s1 == [s EXCEPT !.pauseFlag = FALSE]
              IN  IF ScanOrd[s1.scanState] < ScanOrd["Coarse"]
                  THEN [s1 EXCEPT !.scanState = "Trigger"]
                  ELSE s1
         ELSE IF p # "Resume" /\ ~s.pauseFlag
         THEN goIdle([s EXCEPT !.pauseFlag = TRUE])
         ELSE s
    ELSE s

paused(s, p) ==
    IF s.mode = "Continuous"
    THEN IF p = "Resume" /\ s.pauseFlag
         THEN LET s1 == [s EXCEPT !.pauseFlag = FALSE]
              IN  IF ScanOrd[s1.scanState] < ScanOrd["Coarse"]
                  THEN [s1 EXCEPT !.scanState = "Trigger"]
                  ELSE s1
         ELSE IF p # "Resume" /\ ~s.pauseFlag
         THEN LET s1 == [s EXCEPT !.pauseFlag = TRUE]
              IN  IF p = "Immediate" \/
                     ScanOrd[s1.scanState] < ScanOrd["Coarse"]
                  THEN goIdle(s1)
                  ELSE s1
         ELSE s
    ELSE s

pause(p) ==
    /\ control
    /\ Becomes(paused(St, p))
    /\ deferred' = (p = "Deferred" /\ mode = "Continuous" /\ ~pauseFlag /\
                    scanState = "Coarse")
    /\ UNCHANGED sinceSwitch

(***************************************************************************)
(* Af::Af: the object after construction                                   *)
(***************************************************************************)
InitAf ==
    /\ frame = 0
    /\ range = "Normal"
    /\ speed = "Normal"
    /\ mode = "Manual"
    /\ pauseFlag = FALSE
    /\ scanState = "Idle"
    /\ initted = FALSE
    /\ ftarget = -1
    /\ fsmooth = -1
    /\ prevContrast = 0
    /\ skipCount = 0
    /\ stepCount = 0
    /\ dropCount = 0
    /\ scanMaxContrast = 0
    /\ scanMinContrast = ScanMinInit
    /\ scanMaxIndex = 0
    /\ scanData = <<>>
    /\ reportState = "Idle"
    /\ isPdafEnabled = FALSE
    /\ last_mean = 0
    /\ trigger_when_stable = FALSE
    /\ last_agc_status = FALSE
    /\ calls = 0
    /\ sinceSwitch = cfg.skipFrames
    /\ deferred = FALSE

\* statsRegion_(0, 0, 0, 0), windows_(), useWindows_(false), phaseWeights_()
NoRegion == [x |-> 0, y |-> 0, width |-> 0, height |-> 0]

NoWeights == [rows |-> 0, cols |-> 0, sum |-> 0, w |-> [i \in {} |-> 0]]

Init ==
    /\ tuning = "default"
    /\ InitAf
    /\ statsRegion = NoRegion
    /\ windows = <<>>
    /\ useWindows = FALSE
    /\ wgts = NoWeights

Next ==
    \/ \E in \in FramesAt(St) : prepare(in)
    \/ \E c \in Contrasts : process(c)
    \/ switchMode
    \/ \E r \in RangeRequests : setRange(r)
    \/ \E sp \in SpeedRequests : setSpeed(sp)
    \/ \E d \in Requests : setLensPosition(d)
    \/ cancelScan
    \/ triggerScan
    \/ \E m \in Modes : setMode(m)
    \/ \E p \in Pauses : pause(p)

Spec == Init /\ [][Next]_vars

(***************************************************************************)
(* The pipeline delivers frames for as long as the camera runs, whatever   *)
(* the application does: frameArrives is prepare() on the next frame, and  *)
(* counts it.  No frame is withheld: dropCount_ counts on, and since all   *)
(* values above every dropout_frames act alike (the test is                *)
(* ++dropCount_ == dropoutFrames), the model stops counting at             *)
(* MaxDropCount + 1.                                                       *)
(***************************************************************************)
frameArrives(in) ==
    LET s0 == prepared(St, in)
        s == [s0 EXCEPT !.dropCount = Min(@, MaxDropCount + 1)]
    IN  /\ Assigned(s)
        /\ sinceSwitch' = IF afterTrigger(St).initted /\
                             sinceSwitch < cfg.skipFrames
                          THEN sinceSwitch + 1 ELSE sinceSwitch
        /\ frame' = 1 - frame
        /\ UNCHANGED <<tuning, weightVars, calls, deferred>>

\* frames of a scene whose exposure is steady: the AGC never reports a lock
\* and the mean stays put (read only by the scene monitor of Continuous mode)
SteadyFramesAt(s) == {in \in FramesAt(s) : ~in.locked /\ in.mean = 500}

NextFair ==
    \/ \E in \in SteadyFramesAt(St) : frameArrives(in)
    \/ \E c \in Contrasts : process(c)
    \/ switchMode
    \/ \E r \in RangeRequests : setRange(r)
    \/ \E sp \in SpeedRequests : setSpeed(sp)
    \/ \E d \in Requests : setLensPosition(d)
    \/ cancelScan
    \/ triggerScan
    \/ \E m \in Modes : setMode(m)
    \/ \E p \in Pauses : pause(p)

\* there is always a next frame
FramesKeepArriving == WF_frame(frame' = 1 - frame)

SpecFair == Init /\ [][NextFair]_vars /\ FramesKeepArriving

\* the same object and calls, constructed from the tuning with long ranges
InitWide ==
    /\ tuning = "wide"
    /\ InitAf
    /\ statsRegion = NoRegion
    /\ windows = <<>>
    /\ useWindows = FALSE
    /\ wgts = NoWeights

\* frames of a sensor without PDAF: the metadata never carries pdaf.regions
NextWide ==
    \/ \E in \in {i \in FramesAt(St) : ~i.pdaf} : prepare(in)
    \/ \E c \in Contrasts : process(c)
    \/ switchMode
    \/ \E r \in RangeRequests : setRange(r)
    \/ \E sp \in SpeedRequests : setSpeed(sp)
    \/ \E d \in Requests : setLensPosition(d)
    \/ cancelScan
    \/ triggerScan
    \/ \E m \in Modes : setMode(m)
    \/ \E p \in Pauses : pause(p)

SpecWide == InitWide /\ [][NextWide]_vars

TypeOK ==
    /\ range \in Ranges /\ speed \in Speeds /\ mode \in Modes
    /\ pauseFlag \in BOOLEAN /\ scanState \in ScanStates
    /\ initted \in BOOLEAN
    /\ ftarget \in -1 .. cfg.map.x1 /\ fsmooth \in -1 .. cfg.map.x1
    /\ prevContrast \in Contrasts
    /\ calls \in 0 .. MaxControls
    /\ sinceSwitch \in 0 .. cfg.skipFrames /\ deferred \in BOOLEAN
    /\ skipCount \in 0 .. cfg.skipFrames
    /\ stepCount \in 0 .. MaxStepCount
    /\ dropCount \in 0 .. MaxDropCount
    /\ scanMaxIndex \in Nat /\ Len(scanData) <= 5
    /\ reportState \in AfStates /\ isPdafEnabled \in BOOLEAN

(***************************************************************************)
(* Shorthands for the properties below.                                    *)
(***************************************************************************)
\* an autofocus operation is in flight: scanState_ >= ScanState::Pdaf
inFlight(s) == ScanOrd[s.scanState] >= ScanOrd["Pdaf"]

\* ftarget lies in the active range whenever an operation is in flight
targetInRange(s) ==
    inFlight(s) =>
        rangeOf(s).focusMin <= s.ftarget /\ s.ftarget <= rangeOf(s).focusMax

\* this step is a call of prepare()
isPrepare == \E in \in FramesAt(St) : prepare(in)

(***************************************************************************)
(* C1.  For every call of prepare() entered with initted = true, fsmooth   *)
(* on return differs from fsmooth on entry by at most maxSlew of the       *)
(* active speed, whatever transition the frame takes.                      *)
(* Fails: startProgrammedScan() moves the lens by one slew step and the    *)
(* updateLensPosition() that ends prepare() moves it by a second one.      *)
(***************************************************************************)
C1_SlewPerFrame ==
    [][(initted /\ isPrepare) =>
          Abs(fsmooth' - fsmooth) <= cfg.speeds[speed].maxSlew]_vars

(***************************************************************************)
(* C2.  Between calls, whenever scanState is Pdaf, Coarse, Fine or Settle, *)
(* ftarget lies within [focusMin, focusMax] of the active range, after any *)
(* sequence of calls, setRange included.                                   *)
(* Fails: setRange only stores the new range; ftarget is clamped to it by  *)
(* the next updateLensPosition().                                          *)
(***************************************************************************)
C2_TargetInRange == targetInRange(St)

(***************************************************************************)
(* C2, amended.  Every prepare() returns with ftarget inside the active    *)
(* range when an operation is in flight, and every call that leaves the    *)
(* selected range as it is keeps ftarget inside it.                        *)
(***************************************************************************)
C2_TargetInRangeAmended ==
    /\ [](\A in \in FramesAt(St) : targetInRange(prepared(St, in)))
    /\ [][(range' = range /\ targetInRange(St)) => targetInRange(St')]_vars

\* a scan runs in the Macro range, whose focusMin is above the one of the
\* range the object starts in, with ftarget on that focusMin
C2_Witness ==
    /\ range = "Macro" /\ scanState \in {"Coarse", "Fine"}
    /\ ftarget = cfg.ranges["Macro"].focusMin

(***************************************************************************)
(* C3.  After switchMode(), each of the next skipFrames calls of doAF      *)
(* returns having changed nothing but skipCount, which it lowers by one.   *)
(***************************************************************************)
C3_SkipAfterSwitch ==
    (sinceSwitch < cfg.skipFrames /\ afterTrigger(St).initted) =>
        \A in \in FrameInputs :
            afterDoAF(St, in) = [atDoAF(St, in) EXCEPT !.skipCount = @ - 1]

\* one doAF call after a switchMode has been skipped in the middle of a scan
\* and the next one is to be skipped too
C3_Witness ==
    /\ sinceSwitch = 1 /\ skipCount = cfg.skipFrames - 1
    /\ scanState = "Coarse" /\ fsmooth = ftarget

(***************************************************************************)
(* C4.  Continuous mode, pause(Deferred) during a Coarse scan: once the    *)
(* scan has completed, every later frame leaves scanState Idle and reports *)
(* pauseState Paused, for all PDAF and contrast inputs, until              *)
(* pause(Resume), which sets scanState to Trigger.                         *)
(* Fails: the scene monitor of doAF does not look at pauseFlag and starts  *)
(* a programmed scan while the object is paused.                           *)
(***************************************************************************)
C4_DeferredPauseHolds ==
    [][(deferred /\ pauseFlag /\ scanState = "Idle") =>
          /\ isPrepare => (scanState' = "Idle" /\
                           statusOf(St').pauseState = "Paused")
          /\ pause("Resume") => scanState' = "Trigger"]_vars

(***************************************************************************)
(* C5.  Continuous mode, pause flag clear, scanState in Pdaf, Coarse, Fine *)
(* or Settle: pause(Deferred) sets the flag and leaves scanState as it is; *)
(* only pause(Immediate) forces Idle.                                      *)
(* Fails in Pdaf, which is below Coarse: pause(Deferred) goes idle there.  *)
(***************************************************************************)
C5_DeferredKeepsScan ==
    [][(mode = "Continuous" /\ ~pauseFlag /\ inFlight(St)) =>
          /\ pause("Deferred") => (pauseFlag' /\ scanState' = scanState)
          /\ pause("Immediate") => (pauseFlag' /\ scanState' = "Idle")]_vars

(***************************************************************************)
(* C5, amended.  In the same states pause(Deferred) sets the flag and      *)
(* leaves scanState as it is when scanState is Coarse, Fine or Settle;     *)
(* when it is Pdaf it forces Idle at once, as pause(Immediate) does from   *)
(* each of the four states.                                                *)
(***************************************************************************)
C5_DeferredKeepsProgrammedScan ==
    [][(mode = "Continuous" /\ ~pauseFlag /\ inFlight(St)) =>
          /\ pause("Deferred") =>
                /\ pauseFlag'
                /\ scanState' = IF scanState = "Pdaf" THEN "Idle"
                                ELSE scanState
          /\ pause("Immediate") => (pauseFlag' /\ scanState' = "Idle")]_vars

\* pause(Deferred) has just been called during a Coarse scan, which goes on
C5_Witness == deferred /\ pauseFlag /\ scanState = "Coarse"

(***************************************************************************)
(* C6.  The pause flag is set only while the mode is Continuous, and the   *)
(* status of a frame in Manual or Auto mode has pauseState Running.        *)
(***************************************************************************)
C6_PauseOnlyContinuous ==
    /\ pauseFlag => mode = "Continuous"
    /\ mode # "Continuous" =>
          \A in \in FramesAt(St) :
              statusOf(prepared(St, in)).pauseState = "Running"

\* the object is paused, in Continuous mode
C6_Witness == pauseFlag /\ mode = "Continuous" /\ scanState = "Idle"

(***************************************************************************)
(* C7.  setMode(m) with m the current mode changes nothing.  With another  *)
(* m it sets the mode, clears the pause flag, and sets scanState to        *)
(* Trigger when m is Continuous; when m is Manual or Auto it goes idle     *)
(* (scanState Idle, reportState Idle, scanData empty) from every scan      *)
(* state.                                                                  *)
(* Fails for m = Auto while a programmed scan runs: the scan goes on.      *)
(***************************************************************************)
C7_SetModeGoesIdle ==
    [][\A m \in Modes : setMode(m) =>
          IF m = mode
          THEN UNCHANGED afVars
          ELSE /\ mode' = m /\ pauseFlag' = FALSE
               /\ IF m = "Continuous"
                  THEN scanState' = "Trigger"
                  ELSE /\ scanState' = "Idle" /\ reportState' = "Idle"
                       /\ scanData' = <<>>]_vars

(***************************************************************************)
(* C7, amended.  As C7, but m = Auto goes idle only from Idle, Trigger and *)
(* Pdaf; from Coarse, Fine and Settle it leaves scanState, reportState and *)
(* scanData as they are.  m = Manual goes idle from every scan state.      *)
(***************************************************************************)
C7_SetModeAmended ==
    [][\A m \in Modes : setMode(m) =>
          IF m = mode
          THEN UNCHANGED afVars
          ELSE /\ mode' = m /\ pauseFlag' = FALSE
               /\ IF m = "Continuous"
                  THEN scanState' = "Trigger"
                  ELSE IF m = "Manual" \/ scanState \in {"Idle", "Trigger", "Pdaf"}
                  THEN /\ scanState' = "Idle" /\ reportState' = "Idle"
                       /\ scanData' = <<>>
                  ELSE UNCHANGED <<scanState, reportState, scanData>>]_vars

\* Auto mode holds a programmed scan that the scene monitor started, which it
\* does in Continuous mode only: setMode(Auto) has kept the scan
C7_Witness ==
    /\ mode = "Auto" /\ scanState \in {"Coarse", "Fine", "Settle"}
    /\ last_mean # 0 /\ reportState = "Scanning"

(***************************************************************************)
(* C8.  triggerScan() sets scanState to Trigger if and only if the mode is *)
(* Auto and scanState is Idle; in every other state it changes nothing.    *)
(***************************************************************************)
C8_TriggerScan ==
    [][triggerScan =>
          IF mode = "Auto" /\ scanState = "Idle"
          THEN St' = [St EXCEPT !.scanState = "Trigger"]
          ELSE UNCHANGED afVars]_vars

\* a scan has been triggered in Auto mode
C8_Witness == mode = "Auto" /\ scanState = "Trigger"

(***************************************************************************)
(* C9.  cancelScan() in Auto mode leaves scanState Idle, reportState Idle  *)
(* and scanData empty from every scan state, and the next prepare()        *)
(* reports state Idle; in Manual and Continuous mode it changes nothing.   *)
(***************************************************************************)
C9_CancelScan ==
    [][cancelScan =>
          IF mode = "Auto"
          THEN /\ scanState' = "Idle" /\ reportState' = "Idle"
               /\ scanData' = <<>>
               /\ \A in \in FrameInputs :
                      statusOf(prepared(St', in)).state = "Idle"
          ELSE UNCHANGED afVars]_vars

\* Auto mode is idle with reportState Idle while the PDAF frames of a
\* triggered scan are not used up: the scan has been cancelled
C9_Witness ==
    /\ mode = "Auto" /\ scanState = "Idle" /\ reportState = "Idle"
    /\ initted /\ stepCount > 0 /\ dropCount = 0 /\ calls = 3

(***************************************************************************)
(* C10.  In Manual mode setLensPosition(d) returns hwpos =                 *)
(* map.eval(map.domain().clip(d)), from every prior state.                 *)
(* Fails from an initted object whose lens is more than maxSlew away from  *)
(* the request: hwpos is the code of the slew-limited position.            *)
(***************************************************************************)
C10_ManualHwpos ==
    [][\A d \in Requests : (mode = "Manual" /\ setLensPosition(d)) =>
          hwposOf(St') = mapEval(mapClip(d))]_vars

(***************************************************************************)
(* C10, amended.  In Manual mode setLensPosition(d) returns the code of    *)
(* the position the lens is sent to: the clamped request when the object   *)
(* is not initted, and otherwise the point nearest to the clamped request  *)
(* that is within maxSlew of fsmooth.                                      *)
(***************************************************************************)
C10_ManualHwposAmended ==
    [][\A d \in Requests : (mode = "Manual" /\ setLensPosition(d)) =>
          hwposOf(St') =
              mapEval(IF initted
                      THEN Clamp(mapClip(d),
                                 fsmooth - cfg.speeds[speed].maxSlew,
                                 fsmooth + cfg.speeds[speed].maxSlew)
                      ELSE mapClip(d))]_vars

\* two setLensPosition calls in Manual mode, the second one for a position
\* more than maxSlew away from the first: the lens is on its way
C10_Witness ==
    /\ mode = "Manual" /\ initted /\ calls = 2 /\ range = "Normal"
    /\ ftarget = cfg.map.x1 /\ fsmooth < ftarget

statusFollowsScan(in) ==
    LET s == prepared(St, in)
        status == statusOf(s)
    IN  /\ (s.mode = "Auto" /\ s.scanState # "Idle") =>
               status.state = "Scanning"
        /\ (mode = "Auto" /\ scanState = "Trigger") =>
               status.state = "Scanning"
        /\ (s.mode = "Auto" /\ status.state \in {"Focused", "Failed"}) =>
               s.scanState = "Idle"
        /\ s.mode # "Auto" => status.state = s.reportState

(***************************************************************************)
(* C11.  In Auto mode the status of a frame has state Scanning whenever    *)
(* scanState is not Idle after the frame, starting with the frame that     *)
(* consumes the trigger; Focused and Failed are published only with        *)
(* scanState Idle.  In the other modes the published state is reportState. *)
(***************************************************************************)
C11_AutoReportsScanning == [](\A in \in FramesAt(St) : statusFollowsScan(in))

\* a triggered PDAF sequence is running whose last correction was within the
\* slew limit: reportState is Focused while the status says Scanning
C11_Witness ==
    mode = "Auto" /\ scanState = "Pdaf" /\ reportState = "Focused"

(***************************************************************************)
(* C13.  In Auto mode an idle controller stays idle: from scanState Idle   *)
(* no prepare, process or switchMode call, with any frame input, leaves    *)
(* scanState other than Idle; only triggerScan and setMode do.             *)
(***************************************************************************)
C13_AutoNeverSelfStarts ==
    [][(mode = "Auto" /\ scanState = "Idle" /\ scanState' # "Idle") =>
          (triggerScan \/ \E m \in Modes : setMode(m))]_vars

\* Auto mode is idle after a failed scan and a switchMode, with frames still
\* to skip
C13_Witness ==
    /\ mode = "Auto" /\ scanState = "Idle" /\ reportState = "Failed"
    /\ sinceSwitch < cfg.skipFrames /\ initted

(***************************************************************************)
(* Shorthands for C12: the frames of a run without PDAF confidence.        *)
(***************************************************************************)
\* frames whose fused confidence is 0, which fails the test of the Pdaf
\* branch whatever dropCount is
QuietFrames == {in \in FrameInputs : in.sample[2] = 0}

\* the frame reaches the confidence test of the Pdaf branch and fails it
failsTest(s, in) ==
    LET s1 == atDoAF(s, in)
    IN  /\ s1.initted /\ s1.skipCount = 0 /\ s1.scanState = "Pdaf"
        /\ ~pdafConfident(s1, in.sample[2])

\* the object after n more frames like f
RECURSIVE afterFrames(_, _, _)
afterFrames(s, f, n) ==
    IF n = 0 THEN s ELSE afterFrames(prepared(s, f), f, n - 1)

(***************************************************************************)
(* C12.  In Pdaf with skipCount 0 and no control call in between, a run of *)
(* dropoutFrames frames that fail the confidence test starts the           *)
(* programmed scan (Coarse, ftarget = focusMin) on the last frame of the   *)
(* run and not before; a frame that passes the test sets dropCount to 0.   *)
(* The run is taken from a frame that did not fail the test and left the   *)
(* object in Pdaf.                                                         *)
(* Fails: Settle hands over to Pdaf without resetting dropCount, which     *)
(* then never equals dropoutFrames again.                                  *)
(***************************************************************************)
C12_DropoutAfterRun ==
    [][scanState' = "Pdaf" =>
          \A in \in FramesAt(St) :
              (prepare(in) /\ atDoAF(St, in).skipCount = 0 /\
               ~failsTest(St, in) /\ cfg.speeds[speed].dropoutFrames > 0) =>
                  \A f \in QuietFrames :
                      LET n == cfg.speeds[speed].dropoutFrames
                          s == afterFrames(St', f, n)
                      IN  /\ \A k \in 0 .. n - 1 :
                                 afterFrames(St', f, k).scanState = "Pdaf"
                          /\ s.scanState = "Coarse"
                          /\ s.ftarget = cfg.ranges[range].focusMin]_vars

\* the frame reaches the confidence test of the Pdaf branch and passes it
passesTest(s, in) ==
    LET s1 == atDoAF(s, in)
    IN  /\ s1.initted /\ s1.skipCount = 0 /\ s1.scanState = "Pdaf"
        /\ pdafConfident(s1, in.sample[2])

(***************************************************************************)
(* C14.  Once doPDAF has set reportState to Failed (correction clipped by  *)
(* the slew limit with ftarget at the end of the range), reportState is    *)
(* Failed after every later frame, in Auto and in Continuous mode, until   *)
(* the next trigger or mode change.                                        *)
(* Fails: the next frame that passes the confidence test sets reportState  *)
(* again.                                                                  *)
(***************************************************************************)
C14_FailedStays ==
    [][reportState' = "Failed" =>
          \A in \in FramesAt(St) :
              (prepare(in) /\ passesTest(St, in)) =>
                  \A f \in FrameInputs :
                      prepared(St', f).reportState = "Failed"]_vars

(***************************************************************************)
(* C14, amended.  In Pdaf with reportState Failed, a frame leaves          *)
(* reportState Failed only if it is skipped or fails the confidence test   *)
(* before the dropout; a frame that passes the test sets reportState to    *)
(* the verdict of its own correction (Focused, Scanning or Failed), and    *)
(* the frame that starts the programmed scan sets it to Scanning.          *)
(***************************************************************************)
C14_FailedUntilNextPdafFrame ==
    [][(scanState = "Pdaf" /\ reportState = "Failed") =>
          \A in \in FramesAt(St) :
              prepare(in) =>
                  LET s1 == atDoAF(St, in)
                  IN  reportState' =
                          IF s1.skipCount > 0 THEN "Failed"
                          ELSE IF pdafConfident(s1, in.sample[2])
                          THEN doPDAF(s1, in.sample[1],
                                      in.sample[2]).reportState
                          ELSE IF s1.dropCount + 1 =
                                  cfg.speeds[speed].dropoutFrames
                          THEN "Scanning"
                          ELSE "Failed"]_vars

\* the PDAF loop of Continuous mode has reported Failed at the low end of the
\* range; no scan has run yet, so the report is the one of doPDAF
C14_Witness ==
    /\ mode = "Continuous" /\ scanState = "Pdaf" /\ reportState = "Failed"
    /\ scanMinContrast = ScanMinInit /\ dropCount = 0
    /\ ftarget = cfg.ranges[range].focusMin

\* doAF is about to finalise Settle: it takes the scanning branch with no
\* frames left to wait
settleDue(s) ==
    /\ s.initted /\ s.skipCount = 0 /\ s.scanState = "Settle"
    /\ s.fsmooth = s.ftarget /\ s.stepCount = 0

(***************************************************************************)
(* C15.  On a frame whose metadata has no pdaf.regions the decisions of    *)
(* doAF are those of isPdafEnabled = false, also after frames that carried *)
(* PDAF data: in Continuous mode an idle controller runs the scene         *)
(* monitor, and Settle hands over to Idle, not to Pdaf.                    *)
(* Fails: isPdafEnabled is set by the first frame with pdaf.regions and    *)
(* never cleared.                                                          *)
(***************************************************************************)
C15_AbsentPdafIsDisabled ==
    \A in \in FrameInputs :
        ~in.pdaf =>
            LET s1 == atDoAF(St, in)
                s2 == afterDoAF(St, in)
            IN  /\ settleDue(s1) => s2.scanState = "Idle"
                /\ (s1.initted /\ s1.skipCount = 0 /\
                    s1.mode = "Continuous" /\ s1.scanState = "Idle") =>
                       s2 = sceneMonitor([s1 EXCEPT !.isPdafEnabled = FALSE],
                                         in.locked, in.mean)

(***************************************************************************)
(* C16.  The contrast that a prepare() consumes is the one the last        *)
(* process() call computed, that is the one of the frame before: only      *)
(* process() writes prevContrast, storing the value of its own frame; the  *)
(* record doScan adds to scanData carries the prevContrast prepare() was   *)
(* entered with, and so does the verdict of Settle.                        *)
(***************************************************************************)
C16_ContrastOfPreviousFrame ==
    /\ [][prevContrast' # prevContrast =>
             \E c \in Contrasts : process(c) /\ prevContrast' = c]_vars
    /\ [][Len(scanData') = Len(scanData) + 1 =>
             scanData'[Len(scanData')].contrast = prevContrast]_vars
    /\ [][(settleDue(St) /\ isPrepare) =>
             LET sp == cfg.speeds[speed]
                 lim == sp.ratioNum * scanMaxContrast
             IN  (reportState' = "Focused") <=>
                     (prevContrast * sp.ratioDen >= lim /\
                      scanMinContrast * sp.ratioDen <= lim)]_vars

\* a scan has recorded the contrasts of two frames, which differ
C16_Witness ==
    /\ Len(scanData) >= 2
    /\ scanData[1].contrast # scanData[2].contrast

(***************************************************************************)
(* C17.  A prepare() entered with scanState Trigger leaves Trigger in that *)
(* call: for Pdaf when PDAF is enabled, for Coarse (programmed scan from   *)
(* focusMin) when it is disabled, so that without PDAF a triggered scan    *)
(* goes Coarse, Fine, Settle and never through Pdaf.                       *)
(* Fails with PDAF taken as isPdafEnabled: startAF decides by the tuning   *)
(* and the mode.                                                           *)
(***************************************************************************)
C17_TriggerByPdafEnabled ==
    scanState = "Trigger" =>
        \A in \in FramesAt(St) :
            prepared(St, in).scanState =
                IF atDoAF(St, in).isPdafEnabled THEN "Pdaf" ELSE "Coarse"

\* the tuning of the current speed and the mode allow a PDAF phase
pdafAllowed(s) ==
    speedOf(s).dropoutFrames > 0 /\
    (s.mode = "Continuous" \/ speedOf(s).pdafFrames > 0)

(***************************************************************************)
(* C17, amended.  A prepare() entered with scanState Trigger leaves        *)
(* Trigger in that call: for Pdaf when the tuning has dropoutFrames > 0    *)
(* and the mode is Continuous or the tuning has pdafFrames > 0, whether    *)
(* or not frames carry PDAF data, and else for Coarse with ftarget =       *)
(* focusMin.  On frames without PDAF confidence a programmed scan leaves   *)
(* Coarse only for Fine and Fine only for Settle.                          *)
(***************************************************************************)
C17_TriggerByTuning ==
    (scanState = "Trigger" \/ scanState = "Coarse" \/ scanState = "Fine") =>
    \A in \in FramesAt(St) :
        LET s == prepared(St, in)
        IN  /\ scanState = "Trigger" =>
                  IF pdafAllowed(St)
                  THEN s.scanState = "Pdaf"
                  ELSE /\ s.scanState = "Coarse"
                       /\ s.ftarget = rangeOf(St).focusMin
            /\ (scanState = "Coarse" /\ in.sample[2] = 0) =>
                  (s.scanState = "Coarse" \/ s.scanState = "Fine")
            /\ (scanState = "Fine" /\ in.sample[2] = 0) =>
                  (s.scanState = "Fine" \/ s.scanState = "Settle")

\* with PDAF confidence a coarse scan can end in Settle without a fine scan
C17_CoarseSkipsFine ==
    /\ scanState = "Coarse"
    /\ \E in \in FramesAt(St) : prepared(St, in).scanState = "Settle"

\* a scan is in its Pdaf phase although no frame has carried PDAF data
C17_Witness ==
    /\ scanState = "Pdaf" /\ ~isPdafEnabled /\ reportState = "Scanning"
    /\ dropCount = 0 /\ initted

(***************************************************************************)
(* C18.  When Settle is finalised (scanState Settle, fsmooth = ftarget,    *)
(* stepCount 0, skipCount 0) the next scanState is Pdaf exactly when the   *)
(* mode is Continuous, the pause flag is clear and PDAF is enabled, and    *)
(* Idle otherwise; a Continuous scan that ends Failed returns to Pdaf.     *)
(* Fails with a tuning of dropoutFrames = 0: the scan ends in Idle.        *)
(***************************************************************************)
C18_SettleNextState ==
    scanState = "Settle" =>
    \A in \in FramesAt(St) :
        LET s1 == atDoAF(St, in)
        IN  settleDue(s1) =>
                prepared(St, in).scanState =
                    IF s1.mode = "Continuous" /\ ~s1.pauseFlag /\
                       s1.isPdafEnabled
                    THEN "Pdaf" ELSE "Idle"

(***************************************************************************)
(* C18, amended.  When Settle is finalised the verdict is Focused or       *)
(* Failed and the next scanState is Pdaf exactly when the mode is          *)
(* Continuous, the pause flag is clear, the tuning of the current speed    *)
(* has dropoutFrames > 0 and a frame has carried PDAF data, and Idle       *)
(* otherwise, whatever the verdict.                                        *)
(***************************************************************************)
C18_SettleNextStateByTuning ==
    scanState = "Settle" =>
    \A in \in FramesAt(St) :
        LET s1 == atDoAF(St, in)
            s2 == prepared(St, in)
        IN  settleDue(s1) =>
                /\ s2.reportState \in {"Focused", "Failed"}
                /\ s2.scanState =
                       IF s1.mode = "Continuous" /\ ~s1.pauseFlag /\
                          speedOf(s1).dropoutFrames > 0 /\ s1.isPdafEnabled
                       THEN "Pdaf" ELSE "Idle"

\* a Continuous scan has ended Failed and handed over to Pdaf: the drop
\* counter still stands where the dropout left it
C18_Witness ==
    /\ mode = "Continuous" /\ scanState = "Pdaf" /\ reportState = "Failed"
    /\ cfg.speeds[speed].dropoutFrames > 0
    /\ dropCount = cfg.speeds[speed].dropoutFrames
    /\ scanData = <<>> /\ last_mean = 0

\* a Continuous scan with PDAF data has ended in Idle under dropoutFrames = 0
C18_IdleByTuning ==
    /\ mode = "Continuous" /\ scanState = "Idle" /\ ~pauseFlag
    /\ isPdafEnabled /\ cfg.speeds[speed].dropoutFrames = 0
    /\ reportState \in {"Focused", "Failed"}

(***************************************************************************)
(* C19.  In triggered PDAF (mode other than Continuous), on a frame with   *)
(* stepCount < stepFrames the correction of the lens target is             *)
(* gain * phase * stepCount / stepFrames, clamped to the slew limit: for   *)
(* 0 < stepCount < stepFrames a non-zero phase gives a non-zero            *)
(* correction.                                                             *)
(* Fails: stepCount / stepFrames is a quotient of unsigned integers, 0     *)
(* for every stepCount < stepFrames, so the correction is 0.               *)
(***************************************************************************)
C19_RampedCorrection ==
    \A in \in FramesAt(St) :
        LET s1 == atDoAF(St, in)
            sp == speedOf(s1)
            phase == in.sample[1]
            corr == doPDAF(s1, phase, in.sample[2]).ftarget - s1.fsmooth
        IN  (passesTest(St, in) /\ s1.mode # "Continuous" /\
             s1.stepCount < sp.stepFrames) =>
                /\ corr = Clamp(TruncDiv(sp.pdafGain * phase * s1.stepCount,
                                         sp.stepFrames),
                                -sp.maxSlew, sp.maxSlew)
                /\ (s1.stepCount > 0 /\ phase # 0) => corr # 0

(***************************************************************************)
(* Af::computeWeights and the calls that set its inputs.                   *)
(***************************************************************************)
\* grids of up to MaxRows x MaxCols cells
MaxRows == 4
MaxCols == 6

\* capacity of windows_
MaxWindows == 10

\* statsRegion_ as switchMode derives it from the camera mode
StatsRegions ==
    {NoRegion,
     [x |-> 0, y |-> 0, width |-> 8, height |-> 6],
     [x |-> 2, y |-> 2, width |-> 16, height |-> 12]}

\* window lists an application sets: none, the whole of a region, one
\* outside every region, two partial windows
WindowLists ==
    {<<>>,
     <<[x |-> 0, y |-> 0, width |-> 8, height |-> 6]>>,
     <<[x |-> 40, y |-> 40, width |-> 4, height |-> 4]>>,
     <<[x |-> 0, y |-> 0, width |-> 3, height |-> 2],
       [x |-> 4, y |-> 3, width |-> 6, height |-> 5]>>}

Max(a, b) == IF a < b THEN b ELSE a

\* the weight window win adds to cell (r, c), 0 where they do not overlap
windowCell(win, rows, cols, r, c) ==
    LET maxCellWeight == 46080 \div (MaxWindows * rows * cols)
        cellH == statsRegion.height \div rows
        cellW == statsRegion.width \div cols
        cellA == cellH * cellW
        y0 == Max(statsRegion.y + cellH * r, win.y)
        y1 == Min(statsRegion.y + cellH * (r + 1), win.y + win.height)
        x0 == Max(statsRegion.x + cellW * c, win.x)
        x1 == Min(statsRegion.x + cellW * (c + 1), win.x + win.width)
    IN  IF y0 >= y1 \/ x0 >= x1 THEN 0
        ELSE (maxCellWeight * ((y1 - y0) * (x1 - x0)) + cellA - 1) \div cellA

RECURSIVE windowsCell(_, _, _, _, _)
windowsCell(wins, rows, cols, r, c) ==
    IF wins = <<>> THEN 0
    ELSE windowCell(Head(wins), rows, cols, r, c) +
         windowsCell(Tail(wins), rows, cols, r, c)

RECURSIVE sumOf(_, _)
sumOf(w, n) == IF n = 0 THEN 0 ELSE w[n - 1] + sumOf(w, n - 1)

\* the merge of the windows, all zero when the windows are not in use
mergedWeights(rows, cols) ==
    LET merge == rows > 0 /\ cols > 0 /\ useWindows /\
                 statsRegion.height >= rows /\ statsRegion.width >= cols
        w == [i \in 0 .. rows * cols - 1 |->
                 IF merge
                 THEN windowsCell(windows, rows, cols, i \div cols, i % cols)
                 ELSE 0]
    IN  [rows |-> rows, cols |-> cols, sum |-> sumOf(w, rows * cols), w |-> w]

\* rows r0 .. r1 - 1 and columns c0 .. c1 - 1 at weight 1, the rest at 0
centralWindow(rows, cols, r0, r1, c0, c1) ==
    LET in(i) == /\ r0 <= i \div cols /\ i \div cols < r1
                 /\ c0 <= i % cols /\ i % cols < c1
    IN  [rows |-> rows, cols |-> cols,
         sum |-> Cardinality({i \in 0 .. rows * cols - 1 : in(i)}),
         w |-> [i \in 0 .. rows * cols - 1 |-> IF in(i) THEN 1 ELSE 0]]

\* a fall-back that rounds the first row and column up
computeWeightsRoundedUp(rows, cols) ==
    LET g == mergedWeights(rows, cols)
    IN  IF g.sum = 0
        THEN centralWindow(rows, cols, (rows + 2) \div 3, rows - rows \div 3,
                           (cols + 3) \div 4, cols - cols \div 4)
        ELSE g

computeWeights(rows, cols) ==
    LET g == mergedWeights(rows, cols)
    IN  IF g.sum = 0
        THEN centralWindow(rows, cols, rows \div 3, rows - rows \div 3,
                           cols \div 4, cols - cols \div 4)
        ELSE g

invalidateWeights(g) == [g EXCEPT !.sum = 0]

\* getPhase and getContrast, on statistics of rows x cols cells
recomputeWeights(rows, cols) ==
    /\ rows # wgts.rows \/ cols # wgts.cols \/ wgts.sum = 0
    /\ wgts' = computeWeights(rows, cols)
    /\ UNCHANGED <<statsRegion, windows, useWindows>>
    /\ UNCHANGED <<tuning, frame, afVars, calls, sinceSwitch, deferred>>

setMetering(m) ==
    /\ useWindows' = m
    /\ wgts' = IF useWindows # m THEN invalidateWeights(wgts) ELSE wgts
    /\ UNCHANGED <<statsRegion, windows>>
    /\ UNCHANGED <<tuning, frame, afVars, calls, sinceSwitch, deferred>>

setWindows(wins) ==
    /\ windows' = wins
    /\ wgts' = IF useWindows THEN invalidateWeights(wgts) ELSE wgts
    /\ UNCHANGED <<statsRegion, useWindows>>
    /\ UNCHANGED <<tuning, frame, afVars, calls, sinceSwitch, deferred>>

\* the object after construction and one switchMode
InitWeights ==
    /\ tuning = "default"
    /\ InitAf
    /\ statsRegion \in StatsRegions
    /\ windows = <<>>
    /\ useWindows = FALSE
    /\ wgts = NoWeights

NextWeights ==
    \/ \E rows \in 0 .. MaxRows, cols \in 0 .. MaxCols :
           recomputeWeights(rows, cols)
    \/ \E m \in BOOLEAN : setMetering(m)
    \/ \E wins \in WindowLists : setWindows(wins)

SpecWeights == InitWeights /\ [][NextWeights]_vars

\* computeWeights has taken its fall-back on this step
fellBack ==
    /\ recomputeWeights(wgts'.rows, wgts'.cols)
    /\ mergedWeights(wgts'.rows, wgts'.cols).sum = 0

(***************************************************************************)
(* C20.  For every rows x cols grid the central-window fall-back of        *)
(* computeWeights gives weight 1 to exactly the cells of rows              *)
(* ceil(rows/3) .. rows - floor(rows/3) - 1 and columns ceil(cols/4) ..    *)
(* cols - floor(cols/4) - 1, weight 0 to the others, and sum the number    *)
(* of covered cells.                                                       *)
(* Fails where rows is no multiple of 3 or cols no multiple of 4: the      *)
(* loops start at floor(rows/3) and floor(cols/4).                         *)
(***************************************************************************)
C20_CentralWindowCeil ==
    [][fellBack =>
          LET rows == wgts'.rows
              cols == wgts'.cols
          IN  wgts' = centralWindow(rows, cols,
                                    (rows + 2) \div 3, rows - rows \div 3,
                                    (cols + 3) \div 4, cols - cols \div 4)]_vars

(***************************************************************************)
(* C20, amended.  For every rows x cols grid the central-window fall-back  *)
(* of computeWeights gives weight 1 to exactly the cells of rows           *)
(* floor(rows/3) .. rows - floor(rows/3) - 1 and columns floor(cols/4) ..  *)
(* cols - floor(cols/4) - 1, weight 0 to the others, and sum the number    *)
(* of covered cells, which is at least 1 when rows and cols are.           *)
(***************************************************************************)
C20_CentralWindowFloor ==
    [][fellBack =>
          LET rows == wgts'.rows
              cols == wgts'.cols
              covered == {<<r, c>> \in (0 .. rows - 1) \X (0 .. cols - 1) :
                             /\ rows \div 3 <= r /\ r < rows - rows \div 3
                             /\ cols \div 4 <= c /\ c < cols - cols \div 4}
          IN  /\ \A r \in 0 .. rows - 1, c \in 0 .. cols - 1 :
                    wgts'.w[r * cols + c] =
                        IF <<r, c>> \in covered THEN 1 ELSE 0
              /\ wgts'.sum = Cardinality(covered)
              /\ (rows > 0 /\ cols > 0) => wgts'.sum > 0]_vars

\* the fall-back on a 4 x 6 grid with windows in use that miss the region:
\* rows 1 and 2, columns 1 to 4
C20_Witness ==
    /\ useWindows /\ windows # <<>>
    /\ wgts.rows = 4 /\ wgts.cols = 6 /\ wgts.sum = 8
    /\ \A i \in 0 .. 23 : wgts.w[i] = IF i \in {7, 8, 9, 10, 13, 14, 15, 16}
                                      THEN 1 ELSE 0

(***************************************************************************)
(* C21.  Whenever doScan evaluates the terminating check of the Fine       *)
(* phase, scanData holds at most 5 records: the check sees the records of  *)
(* the state and the one of the frame, so a state in Fine holds fewer      *)
(* than 5; and every step that enters Fine, whatever calls were            *)
(* interleaved with the frames, leaves scanData empty.                     *)
(***************************************************************************)
C21_FineScanAtMostFive ==
    /\ [](scanState = "Fine" => Len(scanData) + 1 <= 5)
    /\ [][(scanState # "Fine" /\ scanState' = "Fine") =>
              scanData' = <<>>]_vars

\* a fine scan that stopped on its fifth record, above the lower end of the
\* range and without a collapse of the contrast
C21_Witness ==
    /\ scanState = "Settle" /\ Len(scanData) = 5
    /\ scanData[5].focus > rangeOf(St).focusMin
    /\ scanData[5].contrast * speedOf(St).ratioDen >=
           speedOf(St).ratioNum * scanMaxContrast
    /\ calls = MaxControls

(***************************************************************************)
(* C23.  Whenever doScan evaluates findPeak(scanMaxIndex), the index is    *)
(* below the number of records, the frame's record included, and the       *)
(* record it names holds the maximum contrast of the current scan.  A      *)
(* prepare call reaches doScan with the object as startAF left it (when    *)
(* entered in Trigger) or as the previous call left it, so this is stated  *)
(* for every such object in Coarse or Fine and every contrast of the       *)
(* frame, also when scanData was cleared and scanMaxIndex kept.            *)
(***************************************************************************)
C23_PeakIndexInRange ==
    [](LET s == afterTrigger(St)
       IN  s.scanState \in {"Coarse", "Fine"} =>
               \A c \in Contrasts :
                   LET i == scanMaxIndexAfter(s, c)
                       n == Len(s.scanData)
                   IN  /\ i < n + 1
                       /\ i < n => /\ s.scanData[i + 1].contrast =
                                          s.scanMaxContrast
                                   /\ c <= s.scanMaxContrast
                       /\ \A j \in 1 .. n :
                              s.scanData[j].contrast <= s.scanMaxContrast)

\* the Fine phase just entered: the coarse records are gone, the index of
\* their maximum is still stored
C23_Witness ==
    /\ scanState = "Fine" /\ scanData = <<>>
    /\ scanMaxIndex > 0

(***************************************************************************)
(* C22.  In Auto mode (with the model's tunings: stepCoarse, stepFine and  *)
(* maxSlew positive) a scan requested by triggerScan comes to an end: if   *)
(* frames keep arriving and the application makes no further control call  *)
(* (calls stays at the value n it had while the trigger was pending), then *)
(* scanState returns to Idle, whatever PDAF samples and contrasts the      *)
(* frames bring.                                                           *)
(***************************************************************************)
C22_TriggeredScanEnds ==
    \A n \in 1 .. MaxControls :
        (mode = "Auto" /\ scanState = "Trigger" /\ calls = n)
            ~> (scanState = "Idle" \/ calls # n)

\* a programmed scan that ran to its end after setMode(Auto) and
\* triggerScan, the only control calls of the run
C22_Witness ==
    /\ mode = "Auto" /\ scanState = "Idle" /\ calls = 2
    /\ reportState \in {"Focused", "Failed"}
    /\ scanMinContrast # ScanMinInit

(***************************************************************************)
(* C24.  In Manual mode the lens converges on the requested position:      *)
(* setLensPosition(d) sets ftarget to d clipped to the domain of the lens  *)
(* map, no frame changes ftarget, and a frame that finds fsmooth equal to  *)
(* ftarget leaves it there; and if frames keep arriving, then once the     *)
(* application has made its last control call and the mode is Manual,      *)
(* fsmooth reaches ftarget and stays equal to it.                          *)
(***************************************************************************)
C24_ManualConverges ==
    /\ <>[](mode = "Manual" => fsmooth = ftarget)
    /\ [][(mode = "Manual" /\ frame' # frame) =>
              /\ ftarget' = ftarget
              /\ fsmooth = ftarget => fsmooth' = fsmooth]_vars
    /\ [][\A d \in Requests :
              (mode = "Manual" /\ setLensPosition(d)) =>
                  ftarget' = mapClip(d)]_vars

\* on the way: the request 4 was clipped to 3, the call and one frame have
\* moved the lens by one slew step each, and one more frame is needed
C24_Witness ==
    /\ mode = "Manual" /\ initted /\ calls = 2 /\ frame = 1
    /\ ftarget = mapClip(4) /\ fsmooth = ftarget - speedOf(St).maxSlew

====
